---- MODULE Spec2Model ----
(***************************************************************************)
(* Scheduling core of the hospital resource system:                        *)
(*   - ERQueue      (agents/eror_scheduling/scheduler.py)                  *)
(*   - ORScheduler  (agents/eror_scheduling/scheduler.py)                  *)
(*   - StaffScheduler (agents/staff_scheduling/scheduler.py)               *)
(* Each component has its own specification (SpecER, SpecOR, SpecStaff);   *)
(* the variables of the other components stay at their initial values.     *)
(* Time is counted in whole minutes (ER, OR) and whole hours (staff).      *)
(***************************************************************************)
EXTENDS Integers, Sequences, FiniteSets, TLC

VARIABLES
    queue,      \* ERQueue.queue: the list of resident patient dicts
    now,        \* the wall clock read by datetime.now(), in minutes
    nextUid,    \* history: number of patient dicts created so far, plus one
    returned,   \* history: set of uids of the patients returned by get_next_patient
    lastOp,     \* history: the last ERQueue call, its arguments and its result
    deq,        \* the get_next_patient call of a second thread: its position
    orCases,    \* the list of case dicts handed to ORScheduler.schedule_cases
    orRooms,    \* available_ors
    orWindow,   \* <<start_time, end_time>>, each "HH:MM" as <<h, m>> or None
    orResult,   \* the dict returned by schedule_cases, None before the call
    orPrev,     \* history: status and makespan of the call before the last one
    orSolves,   \* history: the statuses solver.Solve returned in the last call
    stArgs,     \* the request: staff dicts, dates, shift duration, minimums
    staff_list, \* StaffScheduler.staff_list
    shifts,     \* StaffScheduler.shifts
    stRelaxed,  \* history: optimize set the coverage minimums to 0
    stSolves,   \* history: the statuses solver.Solve returned in optimize
    stResult,   \* the dict returned by optimize, None before the call
    stPc,       \* where the StaffScheduler call stands: "new", "initialized",
                \* or the branch of optimize that ended it: "solver" (line
                \* 176), "fallback" (line 186), "raised" (an exception left it)
    stRaised    \* the exception that left optimize, None if none

erVars == <<queue, now, nextUid, returned, lastOp, deq>>
orVars == <<orCases, orRooms, orWindow, orResult, orPrev, orSolves>>
stVars == <<stArgs, staff_list, shifts, stRelaxed, stSolves, stResult, stPc, stRaised>>
vars == <<erVars, orVars, stVars>>

(***************************************************************************)
(* Bounds of the ER model.                                                 *)
(***************************************************************************)
MaxAdds == 2
MaxTime == 402
PatientIds == {"p1", "p2"}
AcuityLevels == 1..5
TickSteps == {200, 201}

\* max(...) and min(...) of a non-empty collection
SetMax(S) == CHOOSE x \in S : \A y \in S : y <= x
SetMin(S) == CHOOSE x \in S : \A y \in S : x <= y

RECURSIVE SumOver(_, _)
SumOver(S, f) ==
    IF S = {} THEN 0
    ELSE LET x == CHOOSE y \in S : TRUE IN f[x] + SumOver(S \ {x}, f)

(***************************************************************************)
(* ERQueue                                                                 *)
(***************************************************************************)
acuity_weight == 100
wait_weight == 1

\* An absent dict key is the empty sequence, a present one a 1-tuple.
Absent == <<>>
None == [none |-> TRUE]

\* wait_minutes = (now - arrival).total_seconds() / 60
WaitMinutes(patient, t) == t - patient.added_time

PriorityScoreBad(patient, t) == patient.acuity_level * acuity_weight

\* patient['priority_score'] = acuity_level * acuity_weight - wait_minutes * wait_weight
PriorityScore(patient, t) ==
    patient.acuity_level * acuity_weight - WaitMinutes(patient, t) * wait_weight

\* the for loop of get_next_patient: every resident gets a fresh score
Rescore(q, t) ==
    [i \in 1..Len(q) |-> [q[i] EXCEPT !.priority_score = <<PriorityScore(q[i], t)>>]]

\* list.sort(key=priority_score): ascending and stable (equal keys keep
\* their relative order).  InsertSorted puts x behind every element whose
\* key is less than or equal to its own.
RECURSIVE InsertSorted(_, _)
InsertSorted(x, s) ==
    IF s = <<>> THEN <<x>>
    ELSE IF s[1].priority_score[1] <= x.priority_score[1]
         THEN <<s[1]>> \o InsertSorted(x, Tail(s))
         ELSE <<x>> \o s

RECURSIVE SortFrom(_, _)
SortFrom(q, acc) ==
    IF q = <<>> THEN acc ELSE SortFrom(Tail(q), InsertSorted(q[1], acc))

SortByScoreBad(q) == q
SortByScore(q) == SortFrom(q, <<>>)

\* a search that takes the first resident whatever its patient_id
FirstIndexBad(q, id, i) == IF i > Len(q) THEN 0 ELSE i

\* index of the first resident with this patient_id, 0 if there is none
RECURSIVE FirstIndex(_, _, _)
FirstIndex(q, id, i) ==
    IF i > Len(q) THEN 0
    ELSE IF q[i].patient_id = id THEN i
    ELSE FirstIndex(q, id, i + 1)

\* the assignment of update_patient_acuity to the matched dict
SetAcuityBad(q, i, new_acuity, t) ==
    [q EXCEPT ![i].acuity_level = new_acuity, ![i].added_time = t]
SetAcuity(q, i, new_acuity, t) ==
    [q EXCEPT ![i].acuity_level = new_acuity]

Uids(q) == {q[i].uid : i \in 1..Len(q)}

\* history: the call before this one re-triaged this patient
JustRetriaged(patient) ==
    /\ lastOp.op = "update_patient_acuity"
    /\ lastOp.result
    /\ queue[lastOp.index].uid = patient.uid

ERInitial ==
    /\ queue = <<>>
    /\ now = 0
    /\ nextUid = 1
    /\ returned = {}
    /\ lastOp = [op |-> "init"]
    /\ deq = [pc |-> "idle"]

\* the module-level instances before any request
ORIdle ==
    /\ orCases = <<>>
    /\ orRooms = 0
    /\ orWindow = <<None, None>>
    /\ orResult = None
    /\ orPrev = None
    /\ orSolves = <<>>

\* StaffScheduler.__init__
StaffIdle ==
    /\ stArgs = None
    /\ staff_list = <<>>
    /\ shifts = <<>>
    /\ stRelaxed = FALSE
    /\ stSolves = <<>>
    /\ stResult = None
    /\ stPc = "new"
    /\ stRaised = None

ERInit == ERInitial /\ ORIdle /\ StaffIdle

\* time passes between calls
Tick ==
    /\ \E d \in TickSteps :
          /\ now + d <= MaxTime
          /\ now' = now + d
    /\ lastOp' = [op |-> "tick"]
    /\ UNCHANGED <<queue, nextUid, returned, deq, orVars, stVars>>

\* add_patient, for a history of at most max_adds adds
AddPatient(max_adds) ==
    /\ nextUid <= max_adds
    /\ \E id \in PatientIds, a \in AcuityLevels :
          /\ queue' = Append(queue,
                 [patient_id |-> id, acuity_level |-> a, added_time |-> now,
                  priority_score |-> Absent, uid |-> nextUid])
          /\ lastOp' = [op |-> "add_patient"]
    /\ nextUid' = nextUid + 1
    /\ UNCHANGED <<now, returned, deq, orVars, stVars>>

add_patient == AddPatient(MaxAdds)

\* a dequeue that returns the first patient and leaves it in the queue
get_next_patient_peek ==
    /\ IF queue = <<>>
       THEN /\ lastOp' = [op |-> "get_next_patient", result |-> None, at |-> now,
                          retriaged |-> FALSE]
            /\ UNCHANGED <<queue, returned>>
       ELSE LET sorted == SortByScore(Rescore(queue, now))
            IN /\ queue' = sorted
               /\ returned' = returned \cup {sorted[1].uid}
               /\ lastOp' = [op |-> "get_next_patient", result |-> sorted[1], at |-> now,
                             retriaged |-> JustRetriaged(sorted[1])]
    /\ UNCHANGED <<now, nextUid, deq, orVars, stVars>>

get_next_patient ==
    /\ IF queue = <<>>
       THEN /\ lastOp' = [op |-> "get_next_patient", result |-> None, at |-> now,
                          retriaged |-> FALSE]
            /\ UNCHANGED <<queue, returned>>
       ELSE LET sorted == SortByScore(Rescore(queue, now))
            IN /\ queue' = Tail(sorted)
               /\ returned' = returned \cup {sorted[1].uid}
               /\ lastOp' = [op |-> "get_next_patient", result |-> sorted[1], at |-> now,
                             retriaged |-> JustRetriaged(sorted[1])]
    /\ UNCHANGED <<now, nextUid, deq, orVars, stVars>>

update_patient_acuity ==
    /\ \E id \in PatientIds, new_acuity \in AcuityLevels :
          LET i == FirstIndex(queue, id, 1)
          IN /\ queue' = IF i = 0 THEN queue ELSE SetAcuity(queue, i, new_acuity, now)
             /\ lastOp' = IF i = 0
                          THEN [op |-> "update_patient_acuity", patient_id |-> id,
                                index |-> 0, result |-> FALSE]
                          ELSE [op |-> "update_patient_acuity", patient_id |-> id,
                                new_acuity |-> new_acuity, index |-> i, result |-> TRUE]
    /\ UNCHANGED <<now, nextUid, returned, deq, orVars, stVars>>

\* the dict get_queue_status returns for a queue q read at time t.
\* np.mean(wait_times) is kept as the exact fraction <<sum, count>>.
QueueStatus(q, t) ==
    IF q = <<>>
    THEN [total_patients |-> 0, by_acuity |-> <<>>, average_wait_minutes |-> <<0, 1>>]
    ELSE [total_patients |-> Len(q),
          by_acuity |->
             [a \in {q[i].acuity_level : i \in 1..Len(q)} |->
                 Cardinality({i \in 1..Len(q) : q[i].acuity_level = a})],
          average_wait_minutes |->
             <<SumOver(1..Len(q), [i \in 1..Len(q) |-> WaitMinutes(q[i], t)]), Len(q)>>,
          max_wait_minutes |-> SetMax({WaitMinutes(q[i], t) : i \in 1..Len(q)})]

get_queue_status ==
    /\ lastOp' = [op |-> "get_queue_status", result |-> QueueStatus(queue, now)]
    /\ UNCHANGED <<queue, now, nextUid, returned, deq, orVars, stVars>>

ERNext ==
    \/ Tick
    \/ add_patient
    \/ get_next_patient
    \/ update_patient_acuity
    \/ get_queue_status

SpecER == ERInit /\ [][ERNext]_vars

\* the same queue with room for a third patient
TieAdds == 3

add_patient_more == AddPatient(TieAdds)

ERTieNext ==
    \/ Tick
    \/ add_patient_more
    \/ get_next_patient
    \/ update_patient_acuity
    \/ get_queue_status

SpecERTie == ERInit /\ [][ERTieNext]_vars

(***************************************************************************)
(* Claims about ERQueue                                                    *)
(***************************************************************************)
IsDequeue(op) == op.op = "get_next_patient" /\ op.result # None

\* the score the claims speak of, from a resident's acuity and admission time
ClaimScore(acuity, admittedAt, t) == acuity * 100 - (t - admittedAt)

C1_Conservation ==
    /\ returned \cap Uids(queue) = {}
    /\ returned \cup Uids(queue) = 1..(nextUid - 1)
    /\ Cardinality(Uids(queue)) = Len(queue)

C1_Step ==
    (lastOp'.op = "get_next_patient" /\ queue # <<>>) =>
        LET r == lastOp'.result
        IN /\ r # None
           /\ \E i \in 1..Len(queue) :
                 /\ queue[i].uid = r.uid
                 /\ queue[i].acuity_level = r.acuity_level
                 /\ queue[i].added_time = r.added_time
                 /\ queue[i].patient_id = r.patient_id
           /\ \A i \in 1..Len(queue) :
                 ClaimScore(r.acuity_level, r.added_time, now)
                    <= ClaimScore(queue[i].acuity_level, queue[i].added_time, now)
           /\ Len(queue') = Len(queue) - 1
           /\ Uids(queue') = Uids(queue) \ {r.uid}
           /\ r.uid \notin returned
           /\ returned' = returned \cup {r.uid}

\* C1: every get_next_patient on a non-empty queue removes and returns a
\* resident whose score acuity_level*100 - wait_minutes at the time of the
\* call is at most the score of every other resident, and the patients
\* returned and the residents always partition the patients added, each
\* returned once.
C1_MinScoreFirst == []C1_Conservation /\ [][C1_Step]_vars

\* the queue was emptied by dequeues and the first arrival came out last
C1_Witness ==
    /\ IsDequeue(lastOp)
    /\ queue = <<>>
    /\ returned = {1, 2}
    /\ lastOp.result.uid = 1

C6_Scenario ==
    /\ IsDequeue(lastOp)
    /\ Len(queue) = 1
    /\ \E first \in {lastOp.result, queue[1]}, later \in {lastOp.result, queue[1]} :
          /\ first.uid < later.uid
          /\ first.acuity_level = 5
          /\ later.acuity_level = 1
          /\ later.added_time = lastOp.at

C6_Wait5 ==
    LET five == IF lastOp.result.acuity_level = 5 THEN lastOp.result ELSE queue[1]
    IN lastOp.at - five.added_time

\* C6: with an acuity-5 patient enqueued first and an acuity-1 patient
\* enqueued later with zero wait, get_next_patient returns the acuity-5
\* patient first exactly when it has waited 401 minutes or more; at 400
\* minutes or less (the tie at 400 included) the acuity-1 patient is first.
C6_CrossoverAt401 ==
    C6_Scenario => (lastOp.result.acuity_level = 5 <=> C6_Wait5 >= 401)

C7_UpdateStep ==
    (lastOp'.op = "update_patient_acuity" /\ lastOp'.result) =>
        LET i == lastOp'.index
        IN /\ i \in 1..Len(queue)
           /\ queue[i].patient_id = lastOp'.patient_id
           /\ \A j \in 1..(i - 1) : queue[j].patient_id # lastOp'.patient_id
           /\ Len(queue') = Len(queue)
           /\ \A j \in 1..Len(queue) : j # i => queue'[j] = queue[j]
           /\ queue'[i].acuity_level = lastOp'.new_acuity
           /\ queue'[i].added_time = queue[i].added_time
           /\ queue'[i].uid = queue[i].uid
           /\ queue'[i].patient_id = queue[i].patient_id
           /\ queue'[i].priority_score = queue[i].priority_score

C7_DequeueStep ==
    (lastOp'.op = "get_next_patient" /\ queue # <<>>) =>
        \E i \in 1..Len(queue) :
           /\ queue[i].uid = lastOp'.result.uid
           /\ lastOp'.result.priority_score =
                 <<ClaimScore(queue[i].acuity_level, queue[i].added_time, now)>>

\* C7: update_patient_acuity changes only the acuity_level of the first
\* resident with the given id; its admission time, its position and every
\* other resident stay as they were, so the next get_next_patient scores
\* it with new_acuity*100 minus the full wait since it was enqueued.
C7_RetriageKeepsWait == [][C7_UpdateStep]_vars /\ [][C7_DequeueStep]_vars

\* a patient re-triaged to the least severe level after waiting 400 minutes
\* or more was dequeued right away, ahead of another resident, with a score
\* that still counts its whole wait
C7_Witness ==
    /\ IsDequeue(lastOp)
    /\ lastOp.retriaged
    /\ lastOp.result.acuity_level = 5
    /\ lastOp.at - lastOp.result.added_time >= 400
    /\ lastOp.result.priority_score[1] <= 100
    /\ queue # <<>>

(***************************************************************************)
(* ERQueue called from several threads.  The class takes no lock, so the   *)
(* interpreter may switch threads between the statements of a call.  One   *)
(* thread runs get_next_patient statement by statement; add_patient,       *)
(* update_patient_acuity and the clock run in between.                     *)
(***************************************************************************)
\* get_next_patient up to the end of the scoring loop
get_next_patient_score ==
    /\ deq.pc = "idle"
    /\ IF queue = <<>>
       THEN /\ lastOp' = [op |-> "get_next_patient", result |-> None, at |-> now,
                          retriaged |-> FALSE]
            /\ UNCHANGED <<queue, deq>>
       ELSE /\ queue' = Rescore(queue, now)
            /\ deq' = [pc |-> "scored", at |-> now]
            /\ UNCHANGED lastOp
    /\ UNCHANGED <<now, nextUid, returned, orVars, stVars>>

\* self.queue.sort(key=lambda x: x['priority_score']): a dict appended
\* after the loop has no such key and the lambda raises KeyError
get_next_patient_sort ==
    /\ deq.pc = "scored"
    /\ IF \E i \in 1..Len(queue) : queue[i].priority_score = Absent
       THEN /\ lastOp' = [op |-> "get_next_patient", result |-> None, at |-> deq.at,
                          retriaged |-> FALSE, error |-> "KeyError"]
            /\ deq' = [pc |-> "idle"]
            /\ UNCHANGED queue
       ELSE /\ queue' = SortByScore(queue)
            /\ deq' = [pc |-> "sorted", at |-> deq.at]
            /\ UNCHANGED lastOp
    /\ UNCHANGED <<now, nextUid, returned, orVars, stVars>>

\* next_patient = self.queue.pop(0); return next_patient
get_next_patient_pop ==
    /\ deq.pc = "sorted"
    /\ queue' = Tail(queue)
    /\ returned' = returned \cup {queue[1].uid}
    /\ lastOp' = [op |-> "get_next_patient", result |-> queue[1], at |-> deq.at,
                  retriaged |-> FALSE]
    /\ deq' = [pc |-> "idle"]
    /\ UNCHANGED <<now, nextUid, orVars, stVars>>

ERThreadsNext ==
    \/ Tick
    \/ add_patient
    \/ update_patient_acuity
    \/ get_next_patient_score
    \/ get_next_patient_sort
    \/ get_next_patient_pop

SpecERThreads == ERInit /\ [][ERThreadsNext]_vars

\* C14: calls of concurrent callers are serialized, so that under every
\* interleaving a get_next_patient ends without an error and the patients
\* returned and the residents still partition the patients added, none
\* lost and none returned twice.
C14_Serialized ==
    /\ lastOp.op = "get_next_patient" => "error" \notin DOMAIN lastOp
    /\ returned \cap Uids(queue) = {}
    /\ returned \cup Uids(queue) = 1..(nextUid - 1)

(***************************************************************************)
(* ERQueue under an unending stream of arrivals.  The clock has no upper   *)
(* bound here.  To keep the state finite the times are kept on a relative  *)
(* scale: the earliest time in use is 0, and a gap between two successive  *)
(* times in use (admission times and the clock) longer than GapCap is cut  *)
(* to GapCap.  Two acuity terms differ by at most 400, so a gap of more    *)
(* than 400 minutes decides every comparison of two scores across it, and  *)
(* the cut changes no order that get_next_patient computes.  At most       *)
(* MaxResidents patients wait at a time; a uid is reused after its patient *)
(* has left.  The score a resident keeps from the last call is rewritten   *)
(* by the next call before it is read, and is left out here; a wait is     *)
(* reported on the same scale, GapCap standing for any longer wait.        *)
(***************************************************************************)
MaxResidents == 2
GapCap == (5 - 1) * acuity_weight + 1

TimesInUse(q, t) == {q[i].added_time : i \in 1..Len(q)} \cup {t}

RECURSIVE RelativeTime(_, _)
RelativeTime(T, x) ==
    IF \A y \in T : x <= y THEN 0
    ELSE LET p == CHOOSE y \in T : y < x /\ \A z \in T : z < x => z <= y
         IN RelativeTime(T, p) + (IF x - p <= GapCap THEN x - p ELSE GapCap)

Rebase(q, t) ==
    [queue |-> [i \in 1..Len(q) |->
                   [q[i] EXCEPT !.added_time = RelativeTime(TimesInUse(q, t), @),
                                !.priority_score = Absent]],
     now |-> RelativeTime(TimesInUse(q, t), t)]

FreeUid == CHOOSE u \in 1..MaxResidents :
              u \notin Uids(queue) /\ \A v \in 1..(u - 1) : v \in Uids(queue)

StreamTick ==
    /\ \E d \in TickSteps :
          /\ queue' = Rebase(queue, now + d).queue
          /\ now' = Rebase(queue, now + d).now
    /\ lastOp' = [op |-> "tick"]
    /\ UNCHANGED <<nextUid, returned, deq, orVars, stVars>>

StreamAdd ==
    /\ Len(queue) < MaxResidents
    /\ \E id \in PatientIds, a \in AcuityLevels :
          queue' = Append(queue,
                 [patient_id |-> id, acuity_level |-> a, added_time |-> now,
                  priority_score |-> Absent, uid |-> FreeUid])
    /\ lastOp' = [op |-> "add_patient"]
    /\ UNCHANGED <<now, nextUid, returned, deq, orVars, stVars>>

StreamGet ==
    /\ IF queue = <<>>
       THEN /\ lastOp' = [op |-> "get_next_patient", result |-> None]
            /\ UNCHANGED <<queue, now>>
       ELSE \E sorted \in {SortByScore(Rescore(queue, now))} :
               /\ queue' = Rebase(Tail(sorted), now).queue
               /\ now' = Rebase(Tail(sorted), now).now
               /\ lastOp' = [op |-> "get_next_patient",
                             result |-> [acuity_level |-> sorted[1].acuity_level,
                                         wait_minutes |->
                                             IF WaitMinutes(sorted[1], now) <= GapCap
                                             THEN WaitMinutes(sorted[1], now)
                                             ELSE GapCap]]
    /\ UNCHANGED <<nextUid, returned, deq, orVars, stVars>>

StreamUpdate ==
    /\ \E id \in PatientIds, new_acuity \in AcuityLevels :
          LET i == FirstIndex(queue, id, 1)
          IN /\ i # 0
             /\ queue' = SetAcuity(queue, i, new_acuity, now)
    /\ lastOp' = [op |-> "update_patient_acuity"]
    /\ UNCHANGED <<now, nextUid, returned, deq, orVars, stVars>>

ERStreamNext ==
    \/ StreamTick
    \/ StreamAdd
    \/ StreamGet
    \/ StreamUpdate

\* get_next_patient keeps being called and the clock keeps running
SpecERStream ==
    /\ ERInit
    /\ [][ERStreamNext]_vars
    /\ WF_vars(StreamGet)
    /\ WF_vars(StreamTick)

\* resident i had waited more than 400 minutes when resident j arrived
C15_LongBefore(i, j) == queue[j].added_time - queue[i].added_time > 400

C15_NoOvertake ==
    \A i \in 1..Len(queue) : \A j \in 1..Len(queue) :
        C15_LongBefore(i, j) =>
            /\ PriorityScore(queue[i], now) < PriorityScore(queue[j], now)
            /\ queue[j].uid \in Uids(queue')

\* C15: a resident of any acuity that has waited more than 400 minutes has
\* a lower score than every patient enqueued from then on, so none of them
\* is dequeued before it; and with get_next_patient called again and again
\* and time advancing every resident is eventually dequeued, whatever
\* arrives in between.
C15_BoundedStarvation ==
    /\ [][C15_NoOvertake]_vars
    /\ \A u \in 1..MaxResidents : (u \in Uids(queue)) ~> (u \notin Uids(queue))

\* an acuity-5 patient has just been dequeued after more than 400 minutes
\* while an acuity-1 patient that arrived later is still waiting
C15_Witness ==
    /\ lastOp.op = "get_next_patient"
    /\ lastOp.result # None
    /\ lastOp.result.acuity_level = 5
    /\ lastOp.result.wait_minutes > 400
    /\ \E i \in 1..Len(queue) :
          /\ queue[i].acuity_level = 1
          /\ now - queue[i].added_time < lastOp.result.wait_minutes

(***************************************************************************)
(* ORScheduler                                                             *)
(***************************************************************************)
\* Bounds and inputs of the OR model.
MaxCases == 3
MaxRooms == 2
SuppliedDurations == {60, 90, 120}
\* a case dict: of a direct caller, with predicted_duration set, or of the
\* request handler (SurgicalCase.dict()), with the optional
\* estimated_duration and never a predicted_duration
CaseInputs ==
    {[procedure_type |-> "appendectomy", complexity_score |-> 2,
      estimated_duration |-> Absent, predicted_duration |-> <<d>>] :
        d \in SuppliedDurations}
    \cup {[procedure_type |-> "cardiac_bypass", complexity_score |-> 2,
           estimated_duration |-> e, predicted_duration |-> Absent] :
             e \in {Absent, <<60>>}}
Windows == {<<None, None>>, <<<<8, 0>>, <<11, 0>>>>}

DEFAULT_TURNOVER_TIME_MINUTES == 30
OR_OPENING_TIME == <<8, 0>>
OR_CLOSING_TIME == <<18, 0>>

\* h, m = map(int, time_str.split(':')); return h * 60 + m
time_to_minutes(time_str) == time_str[1] * 60 + time_str[2]

\* f"{minutes // 60:02d}:{minutes % 60:02d}"
minutes_to_time(minutes) == <<minutes \div 60, minutes % 60>>

\* SurgeryDurationPredictor._baseline_estimate
procedure_durations(procedure_type) ==
    CASE procedure_type = "appendectomy" -> 60
      [] procedure_type = "cholecystectomy" -> 90
      [] procedure_type = "hernia_repair" -> 120
      [] procedure_type = "knee_replacement" -> 180
      [] procedure_type = "cardiac_bypass" -> 300
      [] OTHER -> 120

\* int(base_duration * (complexity / 2))
baseline_estimate(case) ==
    (procedure_durations(case.procedure_type) * case.complexity_score) \div 2

\* int(duration * 1.1): no trained model file is loaded, the baseline is used
predict_duration(case) == (baseline_estimate(case) * 11) \div 10

\* the loop of schedule_cases: a missing predicted_duration is filled in
WithPredictions(cases) ==
    [i \in 1..Len(cases) |->
        IF cases[i].predicted_duration = Absent
        THEN [cases[i] EXCEPT !.predicted_duration = <<predict_duration(cases[i])>>]
        ELSE cases[i]]

\* duration = case['predicted_duration'] + config.DEFAULT_TURNOVER_TIME_MINUTES
CaseDurationBad(case) == case.predicted_duration[1]
CaseDuration(case) == case.predicted_duration[1] + DEFAULT_TURNOVER_TIME_MINUTES

RECURSIVE GCD(_, _)
GCD(a, b) == IF b = 0 THEN a ELSE GCD(b, a % b)

RECURSIVE SeqGCD(_, _)
SeqGCD(cases, i) ==
    IF i > Len(cases) THEN 0 ELSE GCD(CaseDuration(cases[i]), SeqGCD(cases, i + 1))

\* start_var = model.NewIntVar(0, horizon - duration).  The solver's values
\* are taken on the grid of the common divisor of the interval lengths:
\* every packed schedule of these intervals starts its cases on that grid.
StartDomain(cases, horizon, i) ==
    {g * k : g \in {SeqGCD(cases, 1)},
             k \in 0..((horizon - CaseDuration(cases[i])) \div SeqGCD(cases, 1))}

\* or_var = model.NewIntVar(0, available_ors - 1)
RoomDomain(available_ors) == 0..(available_ors - 1)

\* model.AddNoOverlap(intervals_in_or): the list holds the interval of
\* every case, whatever its or_var, so two intervals may never intersect
DisjointBad(cases, i, s, j, t) == TRUE
Disjoint(cases, i, s, j, t) ==
    \/ s + CaseDuration(cases[i]) <= t
    \/ t + CaseDuration(cases[j]) <= s

\* for or_id in range(available_ors): model.AddNoOverlap(...)
NoOverlapAdded(available_ors) == available_ors >= 1

\* the start vectors that satisfy the variable domains and the NoOverlap
\* constraints, built case by case
RECURSIVE FeasibleStarts(_, _, _, _)
FeasibleStarts(cases, available_ors, horizon, partial) ==
    IF Len(partial) = Len(cases) THEN {partial}
    ELSE UNION {FeasibleStarts(cases, available_ors, horizon, Append(partial, t)) :
                  t \in {u \in StartDomain(cases, horizon, Len(partial) + 1) :
                           NoOverlapAdded(available_ors) =>
                              \A j \in 1..Len(partial) :
                                 Disjoint(cases, Len(partial) + 1, u, j, partial[j])}}


\* model.AddMaxEquality(makespan, [start + duration for every case])
MakespanOf(cases, starts) ==
    SetMax({starts[i] + CaseDuration(cases[i]) : i \in 1..Len(cases)})

\* a search stopped before it has proved the optimum: the best solutions
\* and one of the longest
MinimalBad(cases, horizon, feasible) ==
    IF feasible = {} THEN {}
    ELSE UNION {{s \in feasible : MakespanOf(cases, s) = m[1]}
                  \cup {CHOOSE s \in feasible : MakespanOf(cases, s) = m[2]} :
                m \in {<<SetMin({MakespanOf(cases, s) : s \in feasible}),
                         SetMax({MakespanOf(cases, s) : s \in feasible})>>}}

\* solver.Solve(model) run to completion: the solutions of the model that
\* minimise makespan (OPTIMAL), none if the model has no solution
\* model.Minimize(makespan), with makespan = model.NewIntVar(0, horizon)
Minimal(cases, horizon, feasible) ==
    UNION {{s \in feasible : MakespanOf(cases, s) = best} :
             best \in {SetMin({MakespanOf(cases, s) : s \in feasible} \cup {horizon + 1})}}

OptimalStarts(cases, available_ors, horizon) ==
    IF RoomDomain(available_ors) = {} THEN {}
    ELSE UNION {Minimal(cases, horizon, feasible) :
                  feasible \in {FeasibleStarts(cases, available_ors, horizon, <<>>)}}

Horizon(window) ==
    LET start_time == IF window[1] = None THEN OR_OPENING_TIME ELSE window[1]
        end_time == IF window[2] = None THEN OR_CLOSING_TIME ELSE window[2]
    IN time_to_minutes(end_time) - time_to_minutes(start_time)

StartMinutes(window) ==
    time_to_minutes(IF window[1] = None THEN OR_OPENING_TIME ELSE window[1])

\* the success branch of _optimize_schedule
\* a result that leaves the last case out
SuccessResultBad(cases, window, starts, rooms) ==
    [status |-> "success",
     schedule |->
        [i \in 1..(Len(cases) - 1) |->
            [case_index |-> i,
             or_room |-> rooms[i] + 1,
             start_time |-> <<0, 0>>,
             estimated_duration |-> cases[i].predicted_duration[1],
             with_turnover |-> cases[i].predicted_duration[1]]],
     metrics |->
        [total_cases |-> Len(cases),
         scheduled_cases |-> Len(cases) - 1,
         utilization_minutes |-> 0,
         solver_status |-> "optimal"]]

SuccessResult(cases, window, starts, rooms) ==
    [status |-> "success",
     schedule |->
        [i \in 1..Len(cases) |->
            [case_index |-> i,
             or_room |-> rooms[i] + 1,
             start_time |-> minutes_to_time(StartMinutes(window) + starts[i]),
             estimated_duration |-> cases[i].predicted_duration[1],
             with_turnover |-> CaseDuration(cases[i])]],
     metrics |->
        [total_cases |-> Len(cases),
         scheduled_cases |-> Len(cases),
         utilization_minutes |-> MakespanOf(cases, starts),
         solver_status |-> "optimal"]]

FailedResult == [status |-> "failed", schedule |-> <<>>, metrics |-> <<>>]
EmptyResult == [status |-> "success", schedule |-> <<>>, metrics |-> <<>>]

\* _optimize_schedule: every result the solver's choice of an optimum and
\* of the unconstrained or_var values can produce
OptimizeResults(cases, available_ors, window) ==
    UNION {IF optimal = {} THEN {FailedResult}
           ELSE {SuccessResult(cases, window, s, r) :
                    s \in optimal,
                    r \in [1..Len(cases) -> RoomDomain(available_ors)]} :
             optimal \in {OptimalStarts(cases, available_ors, Horizon(window))}}

RECURSIVE SeqsUpTo(_, _)
SeqsUpTo(S, n) ==
    IF n = 0 THEN {<<>>}
    ELSE LET shorter == SeqsUpTo(S, n - 1)
         IN shorter \cup {Append(q, x) : q \in {r \in shorter : Len(r) = n - 1}, x \in S}

ORInit ==
    /\ ERInitial
    /\ StaffIdle
    /\ orCases \in SeqsUpTo(CaseInputs, MaxCases)
    /\ orRooms \in 1..MaxRooms
    /\ orWindow \in Windows
    /\ orResult = None
    /\ orPrev = None
    /\ orSolves = <<>>

schedule_cases ==
    /\ orResult = None
    /\ IF orCases = <<>>
       THEN /\ orResult' = EmptyResult
            /\ orCases' = orCases
       ELSE /\ orCases' = WithPredictions(orCases)
            /\ orResult' \in OptimizeResults(WithPredictions(orCases), orRooms, orWindow)
    /\ orSolves' = IF orCases = <<>> THEN <<>>
                   ELSE <<IF orResult'.status = "success" THEN "OPTIMAL" ELSE "INFEASIBLE">>
    /\ UNCHANGED <<erVars, stVars, orRooms, orWindow, orPrev>>

ORNext == schedule_cases

SpecOR == ORInit /\ [][ORNext]_vars

\* what a caller compares between two calls
Outcome(result) ==
    [status |-> result.status,
     utilization_minutes |->
        IF "utilization_minutes" \in DOMAIN result.metrics
        THEN <<result.metrics.utilization_minutes>> ELSE Absent]

\* a second schedule_cases on the same list object, room count and window:
\* the case dicts carry the predicted_duration the first call wrote
schedule_cases_again ==
    /\ orResult # None
    /\ orPrev = None
    /\ orPrev' = Outcome(orResult)
    /\ IF orCases = <<>>
       THEN /\ orResult' = EmptyResult
            /\ orCases' = orCases
       ELSE /\ orCases' = WithPredictions(orCases)
            /\ orResult' \in OptimizeResults(WithPredictions(orCases), orRooms, orWindow)
    /\ orSolves' = IF orCases = <<>> THEN <<>>
                   ELSE <<IF orResult'.status = "success" THEN "OPTIMAL" ELSE "INFEASIBLE">>
    /\ UNCHANGED <<erVars, stVars, orRooms, orWindow>>

ORTwiceNext == schedule_cases \/ schedule_cases_again

SpecORTwice == ORInit /\ [][ORTwiceNext]_vars

(***************************************************************************)
(* Claims about ORScheduler                                                *)
(***************************************************************************)
ORSucceeded == orResult # None /\ orResult.status = "success" /\ orCases # <<>>

\* the interval a schedule entry reports, in minutes since midnight
C2_Begin(entry) == entry.start_time[1] * 60 + entry.start_time[2]
C2_End(entry) == C2_Begin(entry) + entry.estimated_duration + 30

\* C2: in every schedule returned with status success, no two cases that
\* report the same or_room have overlapping intervals
\* [start, start + estimated_duration + turnover).
C2_NoOverlapSameRoom ==
    ORSucceeded =>
        \A i, j \in DOMAIN orResult.schedule :
            (i < j /\ orResult.schedule[i].or_room = orResult.schedule[j].or_room) =>
                \/ C2_End(orResult.schedule[i]) <= C2_Begin(orResult.schedule[j])
                \/ C2_End(orResult.schedule[j]) <= C2_Begin(orResult.schedule[i])

\* three cases on two rooms: two share a room, back to back
C2_Witness ==
    /\ ORSucceeded
    /\ orRooms = 2
    /\ Len(orResult.schedule) = 3
    /\ orResult.schedule[1].or_room = orResult.schedule[3].or_room
    /\ orResult.schedule[2].or_room # orResult.schedule[1].or_room
    /\ C2_End(orResult.schedule[3]) = C2_Begin(orResult.schedule[1])

RECURSIVE C3_RoomLoad(_, _, _, _)
C3_RoomLoad(cases, assignment, room, i) ==
    IF i > Len(cases) THEN 0
    ELSE (IF assignment[i] = room THEN cases[i].predicted_duration[1] + 30 ELSE 0)
         + C3_RoomLoad(cases, assignment, room, i + 1)

\* the least, over all assignments of cases to rooms, of the largest
\* per-room sum of (predicted_duration + turnover)
C3_PerRoomOptimum(cases, rooms) ==
    SetMin({SetMax({C3_RoomLoad(cases, a, r, 1) : r \in 1..rooms}) :
               a \in [1..Len(cases) -> 1..rooms]})

\* C3: non-overlap is scoped per room, so the returned makespan is the
\* minimum over all room assignments of the largest per-room sum of
\* (predicted_duration + turnover).
C3_MakespanPerRoom ==
    ORSucceeded =>
        orResult.metrics.utilization_minutes = C3_PerRoomOptimum(orCases, orRooms)

RECURSIVE C8_Total(_, _)
C8_Total(cases, i) ==
    IF i > Len(cases) THEN 0
    ELSE cases[i].predicted_duration[1] + 30 + C8_Total(cases, i + 1)

C8_HorizonMinutes ==
    (IF orWindow[2] = None THEN 18 * 60 ELSE orWindow[2][1] * 60 + orWindow[2][2])
    - (IF orWindow[1] = None THEN 8 * 60 ELSE orWindow[1][1] * 60 + orWindow[1][2])

MaxStaff == 2
DateCounts == {0, 1, 2, 8}
ShiftDurations == {8, 12}
StaffKinds ==
    {[role |-> "doctor", max_hours_per_week |-> 40],
     [role |-> "clerk", max_hours_per_week |-> 32],
     [role |-> "nurse", max_hours_per_week |-> 8]}
MinStaffInputs == {None, [morning |-> 1], [morning |-> 1, night |-> 1]}

\* initialize: shift_types default, and the per-role requirement of a shift
default_shift_types == <<"morning", "afternoon", "night">>
required_staff == [doctor |-> 2, nurse |-> 5, technician |-> 2]

\* _add_coverage_constraints: the defaults and the capacity estimate
default_min_staff == [morning |-> 5, afternoon |-> 6, night |-> 4]
max_shifts_per_staff_per_week == 5

\* initialize: one Shift per (date, shift type), dates outermost
MakeShifts(ndates, shift_types, shift_duration) ==
    [k \in 1..(ndates * Len(shift_types)) |->
        [date |-> (k - 1) \div Len(shift_types),
         shift_name |-> shift_types[((k - 1) % Len(shift_types)) + 1],
         duration_hours |-> shift_duration]]

StaffIdx(staff) == 1..Len(staff)
ShiftIdx(all_shifts) == 1..Len(all_shifts)

Min2(a, b) == IF a <= b THEN a ELSE b

\* dict.get(key, 0)
Get0(dict, key) == IF key \in DOMAIN dict THEN dict[key] ELSE 0

\* adjusted_min_staff[shift_name] = min(min_req, total_staff)
AdjustedMin(staff, min_staff) ==
    [name \in DOMAIN min_staff |-> Min2(min_staff[name], Len(staff))]

\* total_required_assignments: over the shift types that occur
TotalRequired(staff, all_shifts, min_staff) ==
    SumOver(ShiftIdx(all_shifts),
            [k \in ShiftIdx(all_shifts) |->
                Get0(AdjustedMin(staff, min_staff), all_shifts[k].shift_name)])

\* can_meet_requirements = total_possible_shifts >= total_required_assignments
CanMeet(staff, all_shifts, min_staff) ==
    Len(staff) * max_shifts_per_staff_per_week >= TotalRequired(staff, all_shifts, min_staff)

\* the minimum enforced on a shift, after the relaxation to 0
MinRequired(staff, all_shifts, min_staff, k) ==
    IF CanMeet(staff, all_shifts, min_staff)
    THEN Get0(AdjustedMin(staff, min_staff), all_shifts[k].shift_name)
    ELSE 0

\* _group_shifts_by_week: the week a shift falls in, as the date the week
\* started on; a new week starts at the first shift 7 or more days later
RECURSIVE WeekStartsFrom(_, _, _)
WeekStartsFrom(all_shifts, k, starts) ==
    IF k > Len(all_shifts) THEN starts
    ELSE WeekStartsFrom(all_shifts, k + 1,
            Append(starts,
                   IF k = 1 THEN all_shifts[1].date
                   ELSE IF all_shifts[k].date - starts[k - 1] < 7
                        THEN starts[k - 1]
                        ELSE all_shifts[k].date))

group_shifts_by_week(all_shifts) == WeekStartsFrom(all_shifts, 1, <<>>)

Members(roster, k) == {s \in DOMAIN roster : k \in roster[s]}

\* _add_coverage_constraints: sum(assigned_staff) >= min_required
CoverageOK(staff, all_shifts, min_staff, roster, k) ==
    Cardinality(Members(roster, k)) >= MinRequired(staff, all_shifts, min_staff, k)

\* a model without the role constraints
RoleOKBad(staff, all_shifts, roster, k) == TRUE

\* _add_role_matching_constraints: only for a role some staff member has
RoleOK(staff, all_shifts, roster, k) ==
    \A role \in DOMAIN required_staff :
        (\E s \in StaffIdx(staff) : staff[s].role = role) =>
            Cardinality({s \in Members(roster, k) : staff[s].role = role})
                >= required_staff[role]

\* _add_work_hour_constraints: per staff member and per week group
WorkHoursOK(staff, all_shifts, weeks, roster) ==
    \A s \in StaffIdx(staff) :
        \A w \in {weeks[k] : k \in roster[s]} :
            SumOver({k \in roster[s] : weeks[k] = w},
                    [k \in ShiftIdx(all_shifts) |-> all_shifts[k].duration_hours])
                <= staff[s].max_hours_per_week

\* _add_rest_period_constraints: night of a date, morning of the next one
RestOKBad(staff, all_shifts, roster) == TRUE
RestOK(staff, all_shifts, roster) ==
    \A s \in StaffIdx(staff) :
        \A n \in roster[s], m \in roster[s] :
            ~ /\ all_shifts[n].shift_name = "night"
              /\ all_shifts[m].shift_name = "morning"
              /\ all_shifts[m].date = all_shifts[n].date + 1

\* the teams that satisfy the two lower-bound constraints of shift k
Teams(staff, all_shifts, min_staff, k) ==
    {T \in SUBSET StaffIdx(staff) :
        LET roster == [s \in StaffIdx(staff) |-> IF s \in T THEN {k} ELSE {}]
        IN CoverageOK(staff, all_shifts, min_staff, roster, k)
           /\ RoleOK(staff, all_shifts, roster, k)}

\* self.model.Minimize(sum(total_assignments)).  Every other constraint is
\* an upper bound, which dropping a surplus member never breaks, so the
\* optimal rosters are the feasible ones that put a smallest team on
\* every shift.
SmallestTeams(staff, all_shifts, min_staff, k) ==
    UNION {{T \in teams : \A U \in teams : Cardinality(T) <= Cardinality(U)} :
             teams \in {Teams(staff, all_shifts, min_staff, k)}}

AddTeam(roster, T, k) ==
    [s \in DOMAIN roster |-> IF s \in T THEN roster[s] \cup {k} ELSE roster[s]]

\* solver.Solve(model) run to completion: the optimal rosters, built shift
\* by shift; a partial roster that breaks an upper bound is dropped
RECURSIVE OptimalRosters(_, _, _, _, _, _)
OptimalRosters(staff, all_shifts, weeks, teams, k, roster) ==
    IF k > Len(all_shifts) THEN {roster}
    ELSE UNION {OptimalRosters(staff, all_shifts, weeks, teams, k + 1, next) :
                  next \in {r \in {AddTeam(roster, T, k) : T \in teams[k]} :
                              /\ WorkHoursOK(staff, all_shifts, weeks, r)
                              /\ RestOK(staff, all_shifts, r)}}

Solve(staff, all_shifts, min_staff) ==
    UNION {OptimalRosters(staff, all_shifts, weeks, teams, 1,
                          [s \in StaffIdx(staff) |-> {}]) :
             weeks \in {group_shifts_by_week(all_shifts)},
             teams \in {[k \in ShiftIdx(all_shifts) |->
                            SmallestTeams(staff, all_shifts, min_staff, k)]}}

\* one schedule entry; the model keeps the indices of the staff member and
\* of the shift next to the copied fields
Entry(staff, all_shifts, s, k) ==
    [staff_idx |-> s, shift_idx |-> k, role |-> staff[s].role,
     date |-> all_shifts[k].date, shift |-> all_shifts[k].shift_name,
     duration_hours |-> all_shifts[k].duration_hours]

\* _extract_schedule: staff outermost, all_shifts in order
RECURSIVE ExtractFrom(_, _, _, _)
ExtractFrom(staff, all_shifts, roster, pos) ==
    IF pos > Len(staff) * Len(all_shifts) THEN <<>>
    ELSE LET s == ((pos - 1) \div Len(all_shifts)) + 1
             k == ((pos - 1) % Len(all_shifts)) + 1
         IN (IF k \in roster[s] THEN <<Entry(staff, all_shifts, s, k)>> ELSE <<>>)
            \o ExtractFrom(staff, all_shifts, roster, pos + 1)

FirstFitBad(staff, shift, hours, s) == IF Len(staff) >= 1 THEN 1 ELSE 0

\* _generate_fallback_schedule: the staff loop for one shift.  A morning
\* shift of any date but the first reaches `continue` for every member.
RECURSIVE FirstFit(_, _, _, _)
FirstFit(staff, shift, hours, s) ==
    IF s > Len(staff) THEN 0
    ELSE IF hours[s] + shift.duration_hours <= staff[s].max_hours_per_week
         THEN (IF shift.shift_name = "morning" /\ shift.date > 0
               THEN FirstFit(staff, shift, hours, s + 1)
               ELSE s)
         ELSE FirstFit(staff, shift, hours, s + 1)

\* _generate_fallback_schedule: dates ascending, all_shifts in order
RECURSIVE FallbackFrom(_, _, _, _, _)
FallbackFrom(staff, all_shifts, k, hours, schedule) ==
    IF k > Len(all_shifts) THEN schedule
    ELSE LET s == FirstFit(staff, all_shifts[k], hours, 1)
         IN IF s = 0
            THEN FallbackFrom(staff, all_shifts, k + 1, hours, schedule)
            ELSE FallbackFrom(staff, all_shifts, k + 1,
                    [hours EXCEPT ![s] = @ + all_shifts[k].duration_hours],
                    Append(schedule, Entry(staff, all_shifts, s, k)))

generate_fallback_schedule(staff, all_shifts) ==
    FallbackFrom(staff, all_shifts, 1, [s \in StaffIdx(staff) |-> 0], <<>>)

\* optimize, after the solve.  Of the keys of _calculate_metrics the model
\* keeps total_assignments; the others (coverage_percentage,
\* average_hours_per_staff, std_dev_hours, fairness_score,
\* solver_time_seconds) are numbers derived from the roster and the clock.
SolvedResult(staff, all_shifts, roster) ==
    [status |-> "success",
     schedule |-> ExtractFrom(staff, all_shifts, roster, 1),
     metrics |-> [total_assignments |->
                     SumOver(StaffIdx(staff),
                             [s \in StaffIdx(staff) |-> Cardinality(roster[s])])]]

\* the label the fallback omits
FallbackResultBad(staff, all_shifts) ==
    UNION {IF fallback # <<>>
           THEN {[status |-> "success", schedule |-> fallback,
                  metrics |-> [coverage_warning |-> TRUE]]}
           ELSE {[status |-> "failed", schedule |-> <<>>, metrics |-> <<>>]} :
             fallback \in {generate_fallback_schedule(staff, all_shifts)}}

\* optimize, lines 186-202: the greedy schedule, failed if it is empty
FallbackResult(staff, all_shifts) ==
    UNION {IF fallback # <<>>
           THEN {[status |-> "success", schedule |-> fallback,
                  metrics |-> [method |-> "fallback_greedy", coverage_warning |-> TRUE]]}
           ELSE {[status |-> "failed", schedule |-> <<>>, metrics |-> <<>>]} :
             fallback \in {generate_fallback_schedule(staff, all_shifts)}}

\* status in [OPTIMAL, FEASIBLE] takes the first branch, any other the second
OptimizeOutcomes(staff, all_shifts, optimal) ==
    IF optimal = {} THEN FallbackResult(staff, all_shifts)
    ELSE {SolvedResult(staff, all_shifts, r) : r \in optimal}

StaffInit ==
    /\ ERInitial
    /\ ORIdle
    /\ stArgs \in [staff_list : SeqsUpTo(StaffKinds, MaxStaff),
                   ndates : DateCounts,
                   shift_duration : ShiftDurations,
                   min_staff_per_shift : MinStaffInputs]
    /\ staff_list = <<>>
    /\ shifts = <<>>
    /\ stRelaxed = FALSE
    /\ stSolves = <<>>
    /\ stResult = None
    /\ stPc = "new"
    /\ stRaised = None

initialize ==
    /\ stArgs # None
    /\ stPc = "new"
    /\ stPc' = "initialized"
    /\ staff_list' = stArgs.staff_list
    /\ shifts' = MakeShifts(stArgs.ndates, default_shift_types, stArgs.shift_duration)
    /\ UNCHANGED <<erVars, orVars, stArgs, stRelaxed, stSolves, stResult, stRaised>>

\* _calculate_metrics, line 416: total_assignments / (total_shifts * 5)
\* raises ZeroDivisionError when there is no shift
MetricsDivisor(all_shifts) == Len(all_shifts) * 5

optimize ==
    /\ stPc = "initialized"
    /\ LET min_staff == IF stArgs.min_staff_per_shift = None THEN default_min_staff
                        ELSE stArgs.min_staff_per_shift
       IN /\ stRelaxed' = ~CanMeet(staff_list, shifts, min_staff)
          /\ \E optimal \in {Solve(staff_list, shifts, min_staff)} :
              /\ stSolves' = <<IF optimal = {} THEN "INFEASIBLE" ELSE "OPTIMAL">>
              /\ IF optimal # {} /\ MetricsDivisor(shifts) = 0
                 THEN /\ stPc' = "raised"
                      /\ stRaised' = "ZeroDivisionError"
                      /\ stResult' = stResult
                 ELSE /\ stPc' = IF optimal = {} THEN "fallback" ELSE "solver"
                      /\ stResult' \in OptimizeOutcomes(staff_list, shifts, optimal)
                      /\ stRaised' = stRaised
    /\ UNCHANGED <<erVars, orVars, stArgs, staff_list, shifts>>

StaffNext == initialize \/ optimize

SpecStaff == StaffInit /\ [][StaffNext]_vars

(***************************************************************************)
(* Claims about StaffScheduler                                             *)
(***************************************************************************)
StaffReturned == stResult # None

StaffRoster == stResult.schedule

ViaFallback ==
    /\ StaffReturned
    /\ stResult.status = "success"
    /\ "method" \in DOMAIN stResult.metrics

ViaSolver ==
    /\ StaffReturned
    /\ stResult.status = "success"
    /\ "method" \notin DOMAIN stResult.metrics

\* hours of member s on the 7 calendar days d .. d+6
HoursInWindow(s, d) ==
    SumOver({i \in 1..Len(StaffRoster) :
                /\ StaffRoster[i].staff_idx = s
                /\ StaffRoster[i].date \in d..(d + 6)},
            [i \in 1..Len(StaffRoster) |-> StaffRoster[i].duration_hours])

WindowStarts == 0..(stArgs.ndates - 1)

\* C4: in every returned roster, solver or fallback, every staff member
\* works at most max_hours_per_week hours in every window of 7 consecutive
\* calendar days of the date range, not only in the blocks of 7 days
\* counted from the first date.
C4_RollingWeekCap ==
    StaffReturned =>
        \A s \in StaffIdx(staff_list) : \A d \in WindowStarts :
            HoursInWindow(s, d) <= staff_list[s].max_hours_per_week

NightThenMorning(a, b) ==
    /\ a.staff_idx = b.staff_idx
    /\ a.shift = "night"
    /\ b.shift = "morning"
    /\ b.date = a.date + 1

\* C5: in every returned roster, solver or fallback, nobody holds the night
\* shift of a date D and the morning shift of date D+1.
C5_RestAfterNight ==
    StaffReturned =>
        \A i, j \in 1..Len(StaffRoster) :
            ~NightThenMorning(StaffRoster[i], StaffRoster[j])

\* a solver roster in which the night of a date and the morning of the
\* next date are both staffed, by different members
C5_Witness ==
    /\ ViaSolver
    /\ \E i, j \in 1..Len(StaffRoster) :
          /\ StaffRoster[i].shift = "night"
          /\ StaffRoster[j].shift = "morning"
          /\ StaffRoster[j].date = StaffRoster[i].date + 1
          /\ StaffRoster[i].staff_idx # StaffRoster[j].staff_idx

\* the members of role `role` the roster puts on shift k
OnShift(k, role) ==
    {i \in 1..Len(StaffRoster) :
        StaffRoster[i].shift_idx = k /\ StaffRoster[i].role = role}

\* constraint 4, for the roles the staff list has at all
C9_RoleMinimums ==
    \A k \in ShiftIdx(shifts) : \A role \in DOMAIN required_staff :
        (\E s \in StaffIdx(staff_list) : staff_list[s].role = role) =>
            Cardinality(OnShift(k, role)) >= required_staff[role]

C9_RestRule ==
    \A i \in 1..Len(StaffRoster) : \A j \in 1..Len(StaffRoster) :
        ~NightThenMorning(StaffRoster[i], StaffRoster[j])

\* C9: whenever the required assignments exceed the capacity, so that
\* optimize sets the coverage minimums to zero, the call still returns
\* status success, with a roster that keeps the rest rule and the per-role
\* minimums; it does not return failed.
C9_DegradesToValidRoster ==
    (StaffReturned /\ stRelaxed) =>
        /\ stResult.status = "success"
        /\ C9_RestRule
        /\ C9_RoleMinimums

\* C10: in a roster of the greedy fallback no member's hours exceed
\* max_hours_per_week in any week, whatever the staff list, the date range
\* and the shift duration; shifts may stay uncovered.
C10_FallbackKeepsCap ==
    ViaFallback =>
        \A d \in WindowStarts : \A s \in StaffIdx(staff_list) :
            HoursInWindow(s, d) <= staff_list[s].max_hours_per_week

\* a fallback roster over 8 dates in which a member is at the cap exactly
\* and a later afternoon shift is left without anybody
C10_Witness ==
    /\ ViaFallback
    /\ stArgs.ndates = 8
    /\ \E s \in StaffIdx(staff_list) :
          HoursInWindow(s, 0) = staff_list[s].max_hours_per_week
    /\ \E k \in ShiftIdx(shifts) :
          /\ shifts[k].shift_name = "afternoon"
          /\ \A i \in 1..Len(StaffRoster) : StaffRoster[i].shift_idx # k

\* the coverage minimums optimize was called with
MinStaffGiven ==
    IF stArgs.min_staff_per_shift = None THEN default_min_staff
    ELSE stArgs.min_staff_per_shift

AssignedTo(k) == {StaffRoster[i].staff_idx : i \in {j \in 1..Len(StaffRoster) : StaffRoster[j].shift_idx = k}}

\* hours the roster gives member s on the shifts before shift k
HoursBefore(s, k) ==
    SumOver({i \in 1..Len(StaffRoster) :
                StaffRoster[i].staff_idx = s /\ StaffRoster[i].shift_idx < k},
            [i \in 1..Len(StaffRoster) |-> StaffRoster[i].duration_hours])

WorkedNightBefore(s, k) ==
    \E i \in 1..Len(StaffRoster) :
        /\ StaffRoster[i].staff_idx = s
        /\ StaffRoster[i].shift = "night"
        /\ StaffRoster[i].date = shifts[k].date - 1

\* member s could still take shift k: within the cap, and not on a morning
\* right after a night of their own
C11_Eligible(s, k) ==
    /\ HoursBefore(s, k) + shifts[k].duration_hours <= staff_list[s].max_hours_per_week
    /\ ~(shifts[k].shift_name = "morning" /\ WorkedNightBefore(s, k))

\* the requirement of shift k: the enforced coverage minimum and the
\* per-role minimums of the roles the staff list has
C11_Satisfied(k) ==
    /\ Cardinality(AssignedTo(k)) >= MinRequired(staff_list, shifts, MinStaffGiven, k)
    /\ \A role \in DOMAIN required_staff :
          (\E s \in StaffIdx(staff_list) : staff_list[s].role = role) =>
              Cardinality(OnShift(k, role)) >= required_staff[role]

\* C11: the greedy fallback keeps assigning members to a shift until the
\* shift's requirement is satisfied or no eligible member remains: a shift
\* of a fallback roster whose requirement is unmet has no eligible member
\* left outside it (so a shift can get several members, and a morning
\* shift gets every eligible member who did not work the night before).
C11_FallbackFillsShifts ==
    ViaFallback =>
        \A k \in ShiftIdx(shifts) :
            C11_Satisfied(k) \/
                \A s \in StaffIdx(staff_list) \ AssignedTo(k) : ~C11_Eligible(s, k)

\* the shifts one member can work in a week, from the member's own cap
\* and the shift duration, summed over the staff list
C12_Capacity ==
    SumOver(StaffIdx(staff_list),
            [s \in StaffIdx(staff_list) |->
                staff_list[s].max_hours_per_week \div stArgs.shift_duration])

\* C12: optimize sets the coverage minimums to zero exactly when the staff
\* count times the number of shifts a member can work per week, given the
\* member's weekly cap and the shift duration, is less than the number of
\* assignments the minimums require.
C12_RelaxationPolicy ==
    StaffReturned =>
        (stRelaxed <=> C12_Capacity < TotalRequired(staff_list, shifts, MinStaffGiven))

\* the returned value says that coverage was not enforced: a warning key
\* in the result or in its metrics
C13_Warned ==
    \/ "warning" \in DOMAIN stResult
    \/ "warning" \in DOMAIN stResult.metrics
    \/ "coverage_warning" \in DOMAIN stResult.metrics

\* C13: whenever optimize sets the coverage minimums to zero, the returned
\* value (status, schedule, metrics) carries a warning, so that the caller
\* can tell a relaxed run from the value alone.
C13_RelaxationSurfaced ==
    (StaffReturned /\ stRelaxed) => C13_Warned

\* C16: schedule_cases is all-or-nothing: a success result has exactly one
\* schedule entry for every input case, in order, and scheduled_cases equal
\* to total_cases; a failed result has an empty schedule and empty metrics.
C16_AllOrNothing ==
    orResult # None =>
        /\ orResult.status \in {"success", "failed"}
        /\ orResult.status = "success" =>
              /\ Len(orResult.schedule) = Len(orCases)
              /\ \A i \in 1..Len(orCases) :
                    /\ orResult.schedule[i].case_index = i
                    /\ orResult.schedule[i].estimated_duration =
                          orCases[i].predicted_duration[1]
              /\ orCases # <<>> =>
                    /\ orResult.metrics.total_cases = Len(orCases)
                    /\ orResult.metrics.scheduled_cases = Len(orCases)
        /\ orResult.status = "failed" =>
              /\ orResult.schedule = <<>>
              /\ orResult.metrics = <<>>

\* a failed result for three cases of which the first two fit the horizon
\* one after the other: nothing of them is returned
C16_Witness ==
    /\ orResult # None
    /\ orResult.status = "failed"
    /\ Len(orCases) = 3
    /\ CaseDuration(orCases[1]) + CaseDuration(orCases[2]) <= Horizon(orWindow)

\* some assignment of every case to a room exists in which the cases of a
\* room, each lasting predicted_duration + turnover, fit the horizon one
\* after the other
C17_PerRoomFeasible ==
    \E a \in [1..Len(orCases) -> 1..orRooms] :
        \A r \in 1..orRooms : C3_RoomLoad(orCases, a, r, 1) <= C8_HorizonMinutes

\* C17: schedule_cases returns status failed only when no assignment of
\* every case to a room and a start time exists with non-overlapping
\* same-room intervals inside the horizon; whenever one exists the status
\* is success.
C17_FailsOnlyIfInfeasible ==
    (orResult # None /\ orCases # <<>>) =>
        (orResult.status = "success" <=> C17_PerRoomFeasible)

C19_Baseline(procedure_type) ==
    CASE procedure_type = "appendectomy" -> 60
      [] procedure_type = "cholecystectomy" -> 90
      [] procedure_type = "hernia_repair" -> 120
      [] procedure_type = "knee_replacement" -> 180
      [] procedure_type = "cardiac_bypass" -> 300
      [] OTHER -> 120

C19_Expected(case) ==
    IF case.estimated_duration # Absent THEN case.estimated_duration[1]
    ELSE IF case.predicted_duration # Absent THEN case.predicted_duration[1]
    ELSE ((((C19_Baseline(case.procedure_type) * case.complexity_score) \div 2) * 11) \div 10)

C19_Step ==
    (orResult = None /\ orResult' # None /\ orResult'.status = "success") =>
        \A i \in 1..Len(orCases) :
            orResult'.schedule[i].estimated_duration = C19_Expected(orCases[i])

\* C19: a case submitted with a supplied duration estimate is scheduled
\* with that duration unchanged; only a case without one gets the
\* estimator's value, with baseline 120 for an unknown procedure type.
C19_SuppliedDurationKept == [][C19_Step]_vars

\* C20: every roster of the solver path has, on every shift, at least the
\* required number of members of each required role (doctor 2, nurse 5,
\* technician 2), also when the staff list has no member of a role.
C20_RoleMinimumsMet ==
    ViaSolver =>
        \A k \in ShiftIdx(shifts) :
            /\ Cardinality(OnShift(k, "doctor")) >= 2
            /\ Cardinality(OnShift(k, "nurse")) >= 5
            /\ Cardinality(OnShift(k, "technician")) >= 2

\* C21: a roster of the greedy fallback is returned with metrics method =
\* "fallback_greedy" and a roster of the constrained solver never carries
\* that key, so the metrics tell the two paths apart.
C21_PathsDistinguishable ==
    /\ (stPc = "fallback" /\ stResult.status = "success") =>
          /\ "method" \in DOMAIN stResult.metrics
          /\ stResult.metrics.method = "fallback_greedy"
    /\ stPc = "solver" => "method" \notin DOMAIN stResult.metrics

\* the fallback has returned a roster of at least two entries
C21_Witness ==
    /\ stPc = "fallback"
    /\ stResult.status = "success"
    /\ Len(stResult.schedule) >= 2

\* C22: for every input, an empty staff list, an empty date list, an empty
\* horizon and a case longer than the horizon included, optimize and
\* schedule_cases end by returning a result whose status is success or
\* failed; no input makes them raise an exception.
C22_AlwaysTypedResult ==
    /\ stPc # "raised"
    /\ stPc \in {"solver", "fallback"} => stResult.status \in {"success", "failed"}
    /\ orResult # None => orResult.status \in {"success", "failed"}

\* C23: invalid input is rejected before any state changes or any model is
\* built: an acuity outside 1..5, a room count of zero or less and a staff
\* list with zero members each give an error and compute no schedule.  The
\* acuity and the room count are bounded by the request models (api.py,
\* lines 29, 52 and 203); the staff list is the part stated here: a request
\* with no staff member never gets as far as an optimize that returns.
C23_EmptyStaffRejected ==
    Len(stArgs.staff_list) = 0 => (stPc \notin {"solver", "fallback"} /\ stResult = None)

\* ---------------------------------------------------------------------
\* The solver's time budget: solver.parameters.max_time_in_seconds =
\* config.SOLVER_TIMEOUT_SECONDS.  Solve may return before it has proved
\* the optimum (FEASIBLE, holding any solution it has found) or before it
\* has found or refuted anything (UNKNOWN).
\* ---------------------------------------------------------------------
BudgetCases == 2
BudgetDates == 1

\* 'solver_status': 'optimal' if status == cp_model.OPTIMAL else 'feasible'
WithSolverStatusBad(result, name) == result
WithSolverStatus(result, name) ==
    [result EXCEPT !.metrics.solver_status = name]

\* _optimize_schedule, lines 290-333: the pairs <<status of Solve, result>>
BudgetResults(cases, available_ors, window) ==
    UNION {{<<"UNKNOWN", FailedResult>>}
           \cup (IF feasible = {} THEN {<<"INFEASIBLE", FailedResult>>} ELSE {})
           \cup {<<"OPTIMAL", SuccessResult(cases, window, s, r)>> :
                    s \in Minimal(cases, Horizon(window), feasible),
                    r \in [1..Len(cases) -> RoomDomain(available_ors)]}
           \cup {<<"FEASIBLE",
                   WithSolverStatus(SuccessResult(cases, window, s, r), "feasible")>> :
                    s \in feasible,
                    r \in [1..Len(cases) -> RoomDomain(available_ors)]} :
             feasible \in {FeasibleStarts(cases, available_ors, Horizon(window), <<>>)}}

schedule_cases_budget ==
    /\ orResult = None
    /\ IF orCases = <<>>
       THEN /\ orResult' = EmptyResult
            /\ orCases' = orCases
            /\ orSolves' = <<>>
       ELSE /\ orCases' = WithPredictions(orCases)
            /\ \E o \in BudgetResults(WithPredictions(orCases), orRooms, orWindow) :
                  /\ orSolves' = <<o[1]>>
                  /\ orResult' = o[2]
    /\ UNCHANGED <<erVars, stVars, orRooms, orWindow, orPrev>>

\* every roster that satisfies the constraints, built shift by shift
FeasibleRosters(staff, all_shifts, min_staff) ==
    UNION {OptimalRosters(staff, all_shifts, weeks, teams, 1,
                          [s \in StaffIdx(staff) |-> {}]) :
             weeks \in {group_shifts_by_week(all_shifts)},
             teams \in {[k \in ShiftIdx(all_shifts) |->
                            Teams(staff, all_shifts, min_staff, k)]}}

\* optimize, lines 170-176: the pairs <<status of Solve, rosters it may hold>>
BudgetSolve(staff, all_shifts, min_staff) ==
    UNION {{<<"UNKNOWN", {}>>}
           \cup (IF feasible = {} THEN {<<"INFEASIBLE", {}>>}
                 ELSE {<<"OPTIMAL", Solve(staff, all_shifts, min_staff)>>})
           \cup {<<"FEASIBLE", {r}>> : r \in feasible} :
             feasible \in {FeasibleRosters(staff, all_shifts, min_staff)}}

optimize_budget ==
    /\ stPc = "initialized"
    /\ LET min_staff == IF stArgs.min_staff_per_shift = None THEN default_min_staff
                        ELSE stArgs.min_staff_per_shift
       IN /\ stRelaxed' = ~CanMeet(staff_list, shifts, min_staff)
          /\ \E o \in BudgetSolve(staff_list, shifts, min_staff) :
              /\ stSolves' = <<o[1]>>
              /\ IF o[2] # {} /\ MetricsDivisor(shifts) = 0
                 THEN /\ stPc' = "raised"
                      /\ stRaised' = "ZeroDivisionError"
                      /\ stResult' = stResult
                 ELSE /\ stPc' = IF o[2] = {} THEN "fallback" ELSE "solver"
                      /\ stResult' \in OptimizeOutcomes(staff_list, shifts, o[2])
                      /\ stRaised' = stRaised
    /\ UNCHANGED <<erVars, orVars, stArgs, staff_list, shifts>>

\* the requests whose model has at least one variable when there is a
\* case or a staff member: with no date the model is empty and the budget
\* plays no part
BudgetInit ==
    \/ ORInit /\ Len(orCases) <= BudgetCases
    \/ StaffInit /\ stArgs.ndates \in 1..BudgetDates

BudgetNext == schedule_cases_budget \/ initialize \/ optimize_budget

SpecBudget == BudgetInit /\ [][BudgetNext]_vars

\* C24: when the solver stops at its time budget the outcome is mapped once
\* and without retry: holding a feasible solution, the run returns it with
\* status success (OR metrics solver_status = feasible); holding none, OR
\* scheduling returns status failed and staff optimize runs the greedy
\* fallback; the solver is invoked at most once per call.
C24_BudgetMappedOnce ==
    /\ Len(orSolves) <= 1
    /\ Len(stSolves) <= 1
    /\ orSolves = <<"FEASIBLE">> =>
          /\ orResult.status = "success"
          /\ orResult.metrics.solver_status = "feasible"
          /\ Len(orResult.schedule) = Len(orCases)
    /\ orSolves = <<"UNKNOWN">> => orResult = FailedResult
    /\ stSolves = <<"FEASIBLE">> =>
          /\ stPc = "solver"
          /\ stResult.status = "success"
    /\ stSolves = <<"UNKNOWN">> => stPc = "fallback"

\* the budget ended a search of two cases that held a schedule longer than
\* the two cases back to back
C24_Witness ==
    /\ orSolves = <<"FEASIBLE">>
    /\ Len(orCases) = 2
    /\ orResult.metrics.utilization_minutes >
          CaseDuration(orCases[1]) + CaseDuration(orCases[2])

\* C25: for every queue state, the empty queue included, get_queue_status
\* returns the resident count, the per-acuity counts (which sum to the
\* count), the mean and the maximum wait over all residents as they are at
\* the call, and leaves the queue unchanged.
C25_Step ==
    lastOp'.op = "get_queue_status" =>
        LET result == lastOp'.result
            n == Len(queue)
        IN /\ queue' = queue
           /\ {"total_patients", "by_acuity", "average_wait_minutes",
               "max_wait_minutes"} \subseteq DOMAIN result
           /\ result.total_patients = n
           /\ SumOver(DOMAIN result.by_acuity, result.by_acuity) = n
           /\ \A a \in DOMAIN result.by_acuity :
                 result.by_acuity[a] =
                    Cardinality({i \in 1..n : queue[i].acuity_level = a})
           /\ n > 0 =>
                 /\ result.average_wait_minutes[2] = n
                 /\ result.average_wait_minutes[1] =
                       SumOver(1..n, [i \in 1..n |-> now - queue[i].added_time])
                 /\ \E i \in 1..n : result.max_wait_minutes = now - queue[i].added_time
                 /\ \A i \in 1..n : result.max_wait_minutes >= now - queue[i].added_time

C25_QueueStatus == [][C25_Step]_vars

\* C26: update_patient_acuity with a patient_id no resident has returns
\* False and leaves every resident's acuity and admission time and the
\* order of the queue unchanged; with the id of a resident it returns True.
C26_Step ==
    lastOp'.op = "update_patient_acuity" =>
        IF \E i \in 1..Len(queue) : queue[i].patient_id = lastOp'.patient_id
        THEN lastOp'.result = TRUE
        ELSE /\ lastOp'.result = FALSE
             /\ queue' = queue

C26_UnknownIdRefused == [][C26_Step]_vars

\* a re-triage of an id nobody has, on a queue with a resident, was refused
C26_Witness ==
    /\ lastOp.op = "update_patient_acuity"
    /\ lastOp.result = FALSE
    /\ queue # <<>>

\* C27: when two residents have equal priority scores at a get_next_patient
\* call, the one enqueued earlier is returned first, in every history, also
\* after earlier dequeues re-sorted the list and after a re-triage.
C27_EarlierWinsTie ==
    (lastOp.op = "get_next_patient" /\ lastOp.result # None) =>
        \A i \in 1..Len(queue) :
            ~ /\ queue[i].priority_score = lastOp.result.priority_score
              /\ queue[i].uid < lastOp.result.uid

\* the queue holds each added and not yet returned patient once
C28_Inv ==
    /\ Uids(queue) \cup returned = 1..(nextUid - 1)
    /\ Uids(queue) \cap returned = {}
    /\ Cardinality(Uids(queue)) = Len(queue)
    /\ Len(queue) = (nextUid - 1) - Cardinality(returned)

\* a dequeue returns a patient no dequeue returned before, takes exactly it
\* out of the queue, and on an empty queue returns None and leaves it empty
C28_Step ==
    lastOp'.op = "get_next_patient" =>
        IF queue = <<>>
        THEN lastOp'.result = None /\ queue' = <<>>
        ELSE /\ lastOp'.result # None
             /\ lastOp'.result.uid \in Uids(queue) \ returned
             /\ Uids(queue') = Uids(queue) \ {lastOp'.result.uid}
             /\ Len(queue') = Len(queue) - 1

\* C28: after any sequence of add_patient, get_next_patient,
\* update_patient_acuity and get_queue_status calls the queue holds exactly
\* the patients added and not yet returned: its length is the number of adds
\* minus the number of dequeues that returned a patient, every added patient
\* is returned by at most one dequeue, and a dequeue on an empty queue
\* returns None and leaves it empty.
C28_Conservation == []C28_Inv /\ [][C28_Step]_vars

\* one of two added patients was returned, the other is still queued
C28_Witness ==
    /\ lastOp.op = "get_next_patient"
    /\ Cardinality(returned) = 1
    /\ Len(queue) = 1
    /\ nextUid = 3

\* number of staff members of a role
C29_RoleCount(role) ==
    Cardinality({s \in StaffIdx(staff_list) : staff_list[s].role = role})

\* some required role has at least one member but fewer than it requires
C29_Understaffed ==
    \E role \in DOMAIN required_staff :
        /\ C29_RoleCount(role) >= 1
        /\ C29_RoleCount(role) < required_staff[role]

\* C29: role minimums are never relaxed: with at least one shift and a
\* required role (doctor 2, nurse 5, technician 2) that has at least one
\* but fewer members than its count, the constrained solve cannot succeed,
\* whether or not the coverage minimums were relaxed to zero, and optimize
\* returns the fallback roster or status failed.
C29_RoleMinimumsNeverRelaxed ==
    (stPc \in {"solver", "fallback", "raised"} /\ Len(shifts) >= 1 /\ C29_Understaffed) =>
        /\ stPc = "fallback"
        /\ stSolves = <<"INFEASIBLE">>
        /\ \/ stResult.status = "failed"
           \/ /\ stResult.status = "success"
              /\ stResult.metrics.method = "fallback_greedy"

\* one doctor alone, coverage minimums relaxed to zero: the fallback answered
C29_Witness ==
    /\ stPc = "fallback"
    /\ stRelaxed
    /\ Len(staff_list) = 1
    /\ staff_list[1].role = "doctor"
    /\ stResult.status = "success"

\* C30: in every roster optimize returns, from the solver or the fallback, no
\* staff member is assigned to more than one shift of the same date.
C30_OneShiftPerDay ==
    (StaffReturned /\ stResult.status = "success") =>
        \A i \in 1..Len(StaffRoster) : \A j \in 1..Len(StaffRoster) :
            (/\ i # j
             /\ StaffRoster[i].staff_idx = StaffRoster[j].staff_idx
             /\ StaffRoster[i].date = StaffRoster[j].date)
                => StaffRoster[i].shift_idx = StaffRoster[j].shift_idx

====
